---- MODULE Spec2Model ----
(***************************************************************************)
(* A model of the office_tools Flask application (src/app.py):             *)
(*   - the invoice store: the password gate, the create / edit / delete    *)
(*     handlers and the two transactional counters kept in the single      *)
(*     document meta/counters (specification Spec);                        *)
(*   - the document generator: validation and the party aggregation of     *)
(*     generate (specification SpecGenerate).                              *)
(*                                                                         *)
(* Python strings are sequences of one-character strings, Python None is   *)
(* the one-token sequence None, and a Python dict or a Firestore document  *)
(* is a set of <<key, value>> pairs with at most one pair per key.         *)
(***************************************************************************)
EXTENDS Integers, Sequences, FiniteSets, TLC

\* ------------------------------------------------------------------------
\* Bounds of the model
\* ------------------------------------------------------------------------

\* create_invoice requests that may be started in one behaviour of
\* SpecCreate (create requests alone)
MaxCreates == 4

\* create_invoice, invoice_edit and invoice_delete requests that may be
\* started in one behaviour of Spec (all routes) and of SpecStore (create,
\* edit and delete)
StoreBudget == [creates |-> 2, edits |-> 1, deletes |-> 1]

\* names (and addresses) one generate request may submit for the petitioners
\* and for the respondents
MaxParties == 2

\* files generate may write to the temp folder in one behaviour
MaxFiles == 1

\* the last hour of the clock
MaxHour == 26

\* attempts of one firestore transaction before it gives up (the client
\* library's default is 5; the model scales it down)
MaxAttempts == 2

Procs == {"p1", "p2"}

Sessions == {"s1", "s2"}

\* ------------------------------------------------------------------------
\* State of the invoice store
\* ------------------------------------------------------------------------

VARIABLES
    db,           \* TRUE: firestore.client() was created; FALSE: db is None
    INVOICE_GENERATOR_PASSWORD,  \* app.config.get('INVOICE_GENERATOR_PASSWORD')
    session,      \* session[s]: the Flask session dict of browser s
    counters,     \* the document meta/counters ({} while it does not exist)
    invoices,     \* the collection invoices: pairs <<document id, document>>
    clock,        \* logical datetime.utcnow(): invoice writes made so far
    budget,       \* create / edit / delete requests that may still be started
    pc,           \* pc[p]: position of request slot p in its handler
    loc,          \* loc[p]: the local variables of the request of slot p
    issued,       \* the invoice ids generate_invoice_id returned, in order
    refs,         \* [issue_date, ref_no] for each reference number that
                  \* generate_ref_no returned
    last          \* the latest gated request of a session without
                  \* invoice_authenticated: route, response, store access

\* ------------------------------------------------------------------------
\* State of the document generator
\* ------------------------------------------------------------------------

VARIABLES
    gen,             \* the generate request: its position, what it has read
                     \* of the form, what it built and how it was answered
    temp_files,      \* the files in app.config['TEMP_FOLDER']
    template_files,  \* the doc types with a .docx in TEMPLATE_FOLDER
    form_page        \* the latest request to form: doc type and answer

\* ------------------------------------------------------------------------
\* State of the temp folder and of its cleanup
\* ------------------------------------------------------------------------

VARIABLES
    temp_dirs,       \* the directories in app.config['TEMP_FOLDER']
    mtime,           \* os.path.getmtime of every entry of the temp folder,
                     \* in hours: pairs <<name, time>>
    hour,            \* datetime.now(), in hours
    cleanup          \* the cleanup_old_files call of a request to home:
                     \* its position, its locals and what it removed

invVars == <<db, INVOICE_GENERATOR_PASSWORD, session, counters, invoices, clock,
             budget, pc, loc, issued, refs, last>>

folderVars == <<temp_dirs, mtime, hour, cleanup>>

genVars == <<gen, temp_files, template_files, form_page, folderVars>>

vars == <<invVars, genVars>>

\* ------------------------------------------------------------------------
\* Python values
\* ------------------------------------------------------------------------

None == <<"None">>

EmptyStr == <<>>

DigitChars == <<"0", "1", "2", "3", "4", "5", "6", "7", "8", "9">>

IsDigit(c) == \E i \in 1..10 : DigitChars[i] = c

DigitValue(c) == (CHOOSE i \in 1..10 : DigitChars[i] = c) - 1

\* str(n) for n >= 0
RECURSIVE Str(_)
Str(n) == IF n < 10 THEN <<DigitChars[n + 1]>>
          ELSE Str(n \div 10) \o <<DigitChars[(n % 10) + 1]>>

\* f"{n:0Wd}": zero-padded on the left to at least w digits, never truncated
RECURSIVE ZeroPad(_, _)
ZeroPad(s, w) == IF Len(s) >= w THEN s ELSE ZeroPad(<<"0">> \o s, w)

\* int(s) succeeds (the model's strings carry no sign, blank or underscore)
IsInt(s) == Len(s) > 0 /\ \A i \in 1..Len(s) : IsDigit(s[i])

RECURSIVE IntOf(_)
IntOf(s) == IF Len(s) = 0 THEN 0
            ELSE 10 * IntOf(SubSeq(s, 1, Len(s) - 1)) + DigitValue(s[Len(s)])

\* sep in s
Contains(s, sep) == \E i \in 1..Len(s) : s[i] = sep

\* s.split(sep) for a one-character separator
RECURSIVE Split(_, _)
Split(s, sep) ==
    IF ~Contains(s, sep) THEN <<s>>
    ELSE LET i == CHOOSE j \in 1..Len(s) :
                      s[j] = sep /\ \A k \in 1..(j - 1) : s[k] # sep
         IN  <<SubSeq(s, 1, i - 1)>> \o Split(SubSeq(s, i + 1, Len(s)), sep)

\* dict.get(k, default), k in dict, dict[k] = v
Has(d, k) == \E e \in d : e[1] = k

Get(d, k, default) == IF Has(d, k) THEN (CHOOSE e \in d : e[1] = k)[2] ELSE default

Put(d, k, v) == {e \in d : e[1] # k} \cup {<<k, v>>}

Keys(d) == {e[1] : e \in d}

\* ------------------------------------------------------------------------
\* Firestore writes
\* ------------------------------------------------------------------------

\* DocumentReference.set(upd): the document becomes exactly upd
SetDoc(doc, upd) == upd

\* set without merge: the document becomes upd
SetMerge_Replace(doc, upd) == upd

\* DocumentReference.set(upd, merge=True): the fields of upd are written, the
\* other fields of the document are kept; a document that does not exist is
\* created with the fields of upd alone
SetMerge(doc, upd) == {e \in doc : ~Has(upd, e[1])} \cup upd

\* set(..., merge=True) of a map-valued field merges the map key by key
SetMergeMap(doc, field, map) ==
    Put(doc, field, SetMerge(Get(doc, field, {}), map))

\* ------------------------------------------------------------------------
\* Invoice identifiers and reference numbers (src/app.py, 160-222)
\* ------------------------------------------------------------------------

\* the next number taken from the number of stored invoices instead of the
\* persisted counter
InvoiceNextOf_CountDocs(data) == Cardinality(Keys(invoices)) + 1

\* int(data.get("invoice_next", 1))
InvoiceNextOf(data) == Get(data, "invoice_next", 1)

\* f"inv{next_num:04d}"
FormatInvoiceId(next_num) == <<"i", "n", "v">> \o ZeroPad(Str(next_num), 4)

\* the counter written back without the increment
InvoiceTxnWrite_NoIncrement(doc, data) ==
    SetMerge(doc, {<<"invoice_next", InvoiceNextOf(data)>>})

\* generate_invoice_id.txn: transaction.set(counters_ref,
\* {"invoice_next": next_num + 1}, merge=True), next_num taken from the
\* snapshot data the transaction read
InvoiceTxnWrite(doc, data) ==
    SetMerge(doc, {<<"invoice_next", InvoiceNextOf(data) + 1>>})

months == << <<>>, <<"J", "a", "n">>, <<"F", "e", "b">>, <<"M", "a", "r">>,
             <<"A", "p", "r">>, <<"M", "a", "y">>, <<"J", "u", "n">>,
             <<"J", "u", "l">>, <<"A", "u", "g">>, <<"S", "e", "p">>,
             <<"O", "c", "t">>, <<"N", "o", "v">>, <<"D", "e", "c">> >>

Unparsed == [ok |-> FALSE, year |-> EmptyStr, month_num |-> 0]

\* a date of two parts taken as year and month
ParseIssueDate_TwoParts(issue_date) ==
    IF Len(issue_date) = 0 THEN Unparsed
    ELSE LET slash == Contains(issue_date, "/")
             parts == IF slash THEN Split(issue_date, "/")
                      ELSE Split(issue_date, "-")
         IN  IF Len(parts) \notin {2, 3} THEN Unparsed
             ELSE LET year  == IF slash THEN parts[Len(parts)] ELSE parts[1]
                      month == IF slash THEN parts[Len(parts) - 1] ELSE parts[2]
                  IN  IF ~IsInt(month) THEN Unparsed
                      ELSE IF IntOf(month) < 1 \/ IntOf(month) > 12 THEN Unparsed
                      ELSE [ok |-> TRUE, year |-> year, month_num |-> IntOf(month)]

\* a date with "/" read as month/day/year
ParseIssueDate_MonthFirst(issue_date) ==
    IF Len(issue_date) = 0 THEN Unparsed
    ELSE LET slash == Contains(issue_date, "/")
             parts == IF slash THEN Split(issue_date, "/")
                      ELSE Split(issue_date, "-")
         IN  IF Len(parts) # 3 THEN Unparsed
             ELSE LET year  == IF slash THEN parts[3] ELSE parts[1]
                      month == IF slash THEN parts[1] ELSE parts[2]
                  IN  IF ~IsInt(month) THEN Unparsed
                      ELSE IF IntOf(month) < 1 \/ IntOf(month) > 12 THEN Unparsed
                      ELSE [ok |-> TRUE, year |-> year, month_num |-> IntOf(month)]

\* The parsing half of generate_ref_no: the date is split on "/" (day, month,
\* year) when it holds a "/", on "-" (year, month, day) otherwise; anything
\* but three parts, a month int() rejects or a month outside 1..12 yields no
\* reference number.
ParseIssueDate(issue_date) ==
    IF Len(issue_date) = 0 THEN Unparsed
    ELSE LET slash == Contains(issue_date, "/")
             parts == IF slash THEN Split(issue_date, "/")
                      ELSE Split(issue_date, "-")
         IN  IF Len(parts) # 3 THEN Unparsed
             ELSE LET year  == IF slash THEN parts[3] ELSE parts[1]
                      month == parts[2]
                  IN  IF ~IsInt(month) THEN Unparsed
                      ELSE IF IntOf(month) < 1 \/ IntOf(month) > 12 THEN Unparsed
                      ELSE [ok |-> TRUE, year |-> year, month_num |-> IntOf(month)]

\* f"{year}_{month_num:02d}"
MonthKey(year, month_num) == year \o <<"_">> \o ZeroPad(Str(month_num), 2)

\* the monthly count read without the increment
CurrentCount_NoIncrement(data, month_key) ==
    Get(Get(data, "monthly_ref_counters", {}), month_key, 0)

\* int(monthly_counters.get(month_key, 0)) + 1
CurrentCount(data, month_key) ==
    Get(Get(data, "monthly_ref_counters", {}), month_key, 0) + 1

\* f"Bill/{month_abbr}/{year}/{current_count:02d}"
FormatRefNo(year, month_num, current_count) ==
    <<"B", "i", "l", "l", "/">> \o months[month_num + 1] \o <<"/">> \o year
        \o <<"/">> \o ZeroPad(Str(current_count), 2)

\* the monthly counters written with a set that does not merge
RefTxnWrite_NoMerge(doc, data, month_key) ==
    {<<"monthly_ref_counters",
       Put(Get(data, "monthly_ref_counters", {}), month_key,
           CurrentCount(data, month_key))>>}

\* generate_ref_no.txn: monthly_counters[month_key] = current_count, then
\* transaction.set(counters_ref, {"monthly_ref_counters": monthly_counters},
\* merge=True), monthly_counters being the map of the snapshot read
RefTxnWrite(doc, data, month_key) ==
    SetMergeMap(doc, "monthly_ref_counters",
                Put(Get(data, "monthly_ref_counters", {}), month_key,
                    CurrentCount(data, month_key)))

\* a commit that does not look at what was read
CanCommit_Blind(doc, data) == TRUE

\* firestore.transactional commits a transaction only if the document it
\* read is as it was read; otherwise the transaction is aborted and run again
CanCommit(doc, data) == doc = data

\* ------------------------------------------------------------------------
\* Inputs of the invoice requests
\* ------------------------------------------------------------------------

Date_01_03_2024 == <<"0", "1", "/", "0", "3", "/", "2", "0", "2", "4">>

Date_2024_03_15 == <<"2", "0", "2", "4", "-", "0", "3", "-", "1", "5">>

Date_2024_04_01 == <<"2", "0", "2", "4", "-", "0", "4", "-", "0", "1">>

Date_2024_13_01 == <<"2", "0", "2", "4", "-", "1", "3", "-", "0", "1">>

Date_2024_03 == <<"2", "0", "2", "4", "-", "0", "3">>

\* request.form.get("issue_date", "") of create_invoice
CreateDates == {Date_01_03_2024, Date_2024_03_15, Date_2024_04_01,
                Date_2024_13_01, Date_2024_03, EmptyStr}

\* the dates among them that generate_ref_no parses
ValidDates == {Date_01_03_2024, Date_2024_03_15, Date_2024_04_01}

\* the issue dates of create_invoice in Spec
GateDates == {Date_2024_03_15}

\* request.form.get("issue_date", "") of invoice_edit
EditDates == {Date_2024_04_01}

\* the <invoice_id> of a URL
IdInputs == {FormatInvoiceId(n) : n \in 1..StoreBudget.creates}

Password_pw == <<"p", "w">>

\* request.form.get("password", "")
PasswordInputs == {Password_pw, <<"x">>, EmptyStr}

\* ------------------------------------------------------------------------
\* Text helpers of the document generator (src/app.py, 66-83 and 114-133)
\* ------------------------------------------------------------------------

\* the markup tokens a rich-text field may hold besides its characters
Tags == {"<b>", "</b>", "<br>", "<p>", "</p>"}

IsSpace(c) == c \in {" ", "\n"}

\* str.strip()
RECURSIVE Strip(_)
Strip(s) == IF Len(s) = 0 THEN s
            ELSE IF IsSpace(s[1]) THEN Strip(Tail(s))
            ELSE IF IsSpace(s[Len(s)]) THEN Strip(SubSeq(s, 1, Len(s) - 1))
            ELSE s

\* sep.join(parts)
RECURSIVE Join(_, _)
Join(parts, sep) == IF Len(parts) = 0 THEN <<>>
                    ELSE IF Len(parts) = 1 THEN parts[1]
                    ELSE parts[1] \o sep \o Join(Tail(parts), sep)

\* the text nodes of the parsed markup: the maximal runs of characters
\* between tags
RECURSIVE TextNodes(_)
TextNodes(html) ==
    IF Len(html) = 0 THEN <<>>
    ELSE IF html[1] \in Tags THEN TextNodes(Tail(html))
    ELSE LET n == IF \E i \in 1..Len(html) : html[i] \in Tags
                  THEN (CHOOSE i \in 1..Len(html) :
                            html[i] \in Tags /\ \A k \in 1..(i - 1) : html[k] \notin Tags) - 1
                  ELSE Len(html)
         IN  <<SubSeq(html, 1, n)>> \o TextNodes(SubSeq(html, n + 1, Len(html)))

\* extract_plain: "" for an empty value, else
\* BeautifulSoup(html).get_text(separator="\n").strip()
extract_plain(html) ==
    IF Len(html) = 0 THEN <<>> ELSE Strip(Join(TextNodes(html), <<"\n">>))

\* [x for x in xs if keep(x)] for the non-empty strings
RECURSIVE NonEmpty(_)
NonEmpty(xs) == IF Len(xs) = 0 THEN <<>>
                ELSE IF Len(xs[1]) = 0 THEN NonEmpty(Tail(xs))
                ELSE <<xs[1]>> \o NonEmpty(Tail(xs))

\* '\n'.join([line.strip() for line in addr_clean.split('\n') if line.strip()])
AddressOf(addr_clean) ==
    LET lines == Split(addr_clean, "\n")
    IN  Join(NonEmpty([i \in 1..Len(lines) |-> Strip(lines[i])]), <<"\n">>)

\* validate_input refusing only a value two or more characters too long
validate_input_OffByOne(value, field_name, max_length) ==
    IF Len(value) = 0 THEN [ok |-> FALSE, error |-> <<field_name, "is required">>]
    ELSE IF Len(value) > max_length + 1
         THEN [ok |-> FALSE, error |-> <<field_name, "exceeds maximum length">>]
    ELSE [ok |-> TRUE, error |-> None]

\* validate_input(value, field_name, max_length) with required=True
validate_input(value, field_name, max_length) ==
    IF Len(value) = 0 THEN [ok |-> FALSE, error |-> <<field_name, "is required">>]
    ELSE IF Len(value) > max_length
         THEN [ok |-> FALSE, error |-> <<field_name, "exceeds maximum length">>]
    ELSE [ok |-> TRUE, error |-> None]

\* ------------------------------------------------------------------------
\* The party aggregation of generate (src/app.py, 287-360)
\* ------------------------------------------------------------------------

Min(a, b) == IF a < b THEN a ELSE b

\* any(names): some submitted name is a non-empty string
any(names) == \E i \in 1..Len(names) : Len(names[i]) > 0

\* the loop kept every pair whose submitted name is non-empty, cleaned or not
RECURSIVE PartyList_RawName(_, _)
PartyList_RawName(names, addresses) ==
    IF Len(names) = 0 \/ Len(addresses) = 0 THEN <<>>
    ELSE (IF Len(names[1]) > 0
          THEN <<[name |-> extract_plain(names[1]),
                  address |-> AddressOf(extract_plain(addresses[1]))]>>
          ELSE <<>>)
         \o PartyList_RawName(Tail(names), Tail(addresses))

\* for name, addr in zip(names, addresses): the pairs whose cleaned name is
\* not empty, as {'name': name_clean, 'address': the cleaned address lines}
RECURSIVE PartyList(_, _)
PartyList(names, addresses) ==
    IF Len(names) = 0 \/ Len(addresses) = 0 THEN <<>>
    ELSE (IF Len(extract_plain(names[1])) > 0
          THEN <<[name |-> extract_plain(names[1]),
                  address |-> AddressOf(extract_plain(addresses[1]))]>>
          ELSE <<>>)
         \o PartyList(Tail(names), Tail(addresses))

EmptyParty == [name |-> <<>>, address |-> <<>>]

\* party_list[0] if party_list else {'name': '', 'address': ''}
FirstParty(party_list) == IF Len(party_list) > 0 THEN party_list[1] ELSE EmptyParty

\* "\n\n".join([f"{p['name']}\n{p['address']}" for p in party_list])
PartyText(party_list) ==
    Join([i \in 1..Len(party_list) |->
              party_list[i].name \o <<"\n">> \o party_list[i].address],
         <<"\n", "\n">>)

\* ", ".join([p['name'] for p in party_list])
PartyNames(party_list) ==
    Join([i \in 1..Len(party_list) |-> party_list[i].name], <<",", " ">>)

\* the context dict of generate (without the two prayers)
Context(date, district, petitioner_list, respondent_list) ==
    [date |-> date,
     district |-> district,
     petitioner_list |-> petitioner_list,
     respondent_list |-> respondent_list,
     first_petitioner |-> FirstParty(petitioner_list),
     first_respondent |-> FirstParty(respondent_list),
     petitioner |-> PartyText(petitioner_list),
     respondents |-> PartyText(respondent_list),
     petitioner_names |-> PartyNames(petitioner_list),
     respondent_names |-> PartyNames(respondent_list),
     petitioner_addresses |-> petitioner_list,
     respondent_addresses |-> respondent_list,
     petitioner_count |-> Len(petitioner_list),
     respondent_count |-> Len(respondent_list)]

\* ------------------------------------------------------------------------
\* Inputs of generate
\* ------------------------------------------------------------------------

\* a table that also lists INVALID_TYPE
DOC_TEMPLATES_WithInvalid == {"WP", "INVALID_TYPE"}

DOC_TEMPLATES == {"WP"}

\* request.form.get("doc_type"); "None" when the field is missing
DocTypeInputs == {"WP", "INVALID_TYPE", "None"}

DateMaxLength == 20

DistrictMaxLength == 100

Rep(c, n) == [i \in 1..n |-> c]

\* request.form.get("date", ""): missing, blank, as long as allowed, too
\* long, and too long only by the blanks around it
DateFieldInputs == {<<>>, <<" ", " ">>, Rep("9", DateMaxLength),
                    Rep("9", DateMaxLength + 1),
                    <<" ">> \o Rep("1", DateMaxLength - 1) \o <<" ">>}

\* request.form.get("district", "")
DistrictFieldInputs == {<<>>, Rep("d", DistrictMaxLength),
                        Rep("d", DistrictMaxLength + 1)}

\* the lists of at most n elements of S
RECURSIVE ListsUpTo(_, _)
ListsUpTo(S, n) ==
    IF n = 0 THEN {<<>>}
    ELSE ListsUpTo(S, n - 1)
         \cup {<<x>> \o l : x \in S, l \in {m \in ListsUpTo(S, n - 1) : Len(m) = n - 1}}

\* request.form.getlist("petitioner_names"): an empty name, a blank one and
\* a name inside markup
PetitionerNameInputs == {<<>>, <<" ">>, <<"<b>", "P", "</b>">>}

\* request.form.getlist("petitioner_addresses"): an empty address and one of
\* two lines with blanks and markup
PetitionerAddressInputs == {<<>>, <<"<p>", "1", " ", "</p>", " ", "2", "\n">>}

\* request.form.getlist("respondent_names")
RespondentNameInputs == {<<"<br>">>, <<"R">>}

\* request.form.getlist("respondent_addresses")
RespondentAddressInputs == {<<"3", "\n", "\n", "4">>}

\* no cleanup_old_files call under way
IdleCleanup == [pc |-> "idle", now |-> 0, listing |-> {}, removed |-> {},
                outcome |-> "none"]

\* ------------------------------------------------------------------------
\* generate (src/app.py, 260-397), one action per part of the form it reads
\* ------------------------------------------------------------------------

NoContext == Context(<<>>, <<>>, <<>>, <<>>)

IdleGen == [pc |-> "idle", doc_type |-> "None",
            date_raw |-> <<>>, district_raw |-> <<>>,
            date |-> <<>>, district |-> <<>>,
            petitioner_names |-> <<>>, petitioner_addresses |-> <<>>,
            respondent_names |-> <<>>, respondent_addresses |-> <<>>,
            petitioner_list |-> <<>>, respondent_list |-> <<>>,
            has_context |-> FALSE, context |-> NoContext,
            outcome |-> "none", flash |-> None, rendered |-> FALSE]

\* the request returns, with a flash message and a redirect or with the file:
\* what is kept of it is what it was asked and how it was answered, its party
\* lists and its context go with it
Answer(g, outcome, flash) ==
    [IdleGen EXCEPT !.doc_type = g.doc_type,
                    !.date_raw = g.date_raw,
                    !.district_raw = g.district_raw,
                    !.date = g.date,
                    !.district = g.district,
                    !.rendered = g.rendered,
                    !.outcome = outcome,
                    !.flash = flash]

\* POST /generate up to the validation of date and district
generate_begin(doc_type, date_raw, district_raw) ==
    /\ gen.pc = "idle"
    /\ Cardinality(temp_files) < MaxFiles
    /\ LET g == [IdleGen EXCEPT !.doc_type = doc_type,
                                !.date_raw = date_raw,
                                !.district_raw = district_raw,
                                !.date = Strip(date_raw),
                                !.district = Strip(district_raw)]
           v_date == validate_input(g.date, "Date", DateMaxLength)
           v_district == validate_input(g.district, "District", DistrictMaxLength)
       IN  gen' = IF doc_type \notin DOC_TEMPLATES
                  THEN Answer(g, "redirect_home", <<"Invalid document type.">>)
                  ELSE IF ~v_date.ok
                  THEN Answer(g, "redirect_form", v_date.error)
                  ELSE IF ~v_district.ok
                  THEN Answer(g, "redirect_form", v_district.error)
                  ELSE [g EXCEPT !.pc = "petitioners"]
    /\ UNCHANGED <<invVars, temp_files, template_files, form_page, folderVars>>

\* the petitioner lists are read and the petitioner_list is built
generate_petitioners(names, addresses) ==
    /\ gen.pc = "petitioners"
    /\ LET g == [gen EXCEPT !.petitioner_names = names,
                            !.petitioner_addresses = addresses]
       IN  gen' = IF Len(names) = 0 \/ ~any(names)
                  THEN Answer(g, "redirect_form",
                              <<"At least one petitioner is required.">>)
                  ELSE [g EXCEPT !.pc = "respondents",
                                 !.petitioner_list = PartyList(names, addresses)]
    /\ UNCHANGED <<invVars, temp_files, template_files, form_page, folderVars>>

\* the respondent lists are read, the respondent_list and the context are
\* built
generate_respondents(names, addresses) ==
    /\ gen.pc = "respondents"
    /\ LET g == [gen EXCEPT !.respondent_names = names,
                            !.respondent_addresses = addresses]
       IN  gen' = IF Len(names) = 0 \/ ~any(names)
                  THEN Answer(g, "redirect_form",
                              <<"At least one respondent is required.">>)
                  ELSE [g EXCEPT
                           !.pc = "render",
                           !.respondent_list = PartyList(names, addresses),
                           !.has_context = TRUE,
                           !.context = Context(g.date, g.district,
                                               g.petitioner_list,
                                               PartyList(names, addresses))]
    /\ UNCHANGED <<invVars, temp_files, template_files, form_page, folderVars>>

\* output_{uuid4}.docx: a name no file of the folder has
FreshFile ==
    CHOOSE n \in 1..(Cardinality(temp_files \cup temp_dirs) + 1) :
        /\ n \notin temp_files \cup temp_dirs
        /\ \A m \in 1..(n - 1) : m \in temp_files \cup temp_dirs

\* the template is looked up, rendered with the context and saved; render_ok
\* is FALSE when DocxTemplate raises
generate_render(render_ok) ==
    /\ gen.pc = "render"
    /\ IF gen.doc_type \notin template_files
       THEN /\ gen' = Answer(gen, "redirect_home",
                             <<"Document template not found. Please contact administrator.">>)
            /\ UNCHANGED <<temp_files, mtime>>
       ELSE IF ~render_ok
       THEN /\ gen' = Answer([gen EXCEPT !.rendered = TRUE], "redirect_form",
                             <<"Error generating document. Please check your input and try again.">>)
            /\ UNCHANGED <<temp_files, mtime>>
       ELSE /\ gen' = Answer([gen EXCEPT !.rendered = TRUE], "send_file", None)
            /\ temp_files' = temp_files \cup {FreshFile}
            /\ mtime' = Put(mtime, FreshFile, hour)
    /\ UNCHANGED <<invVars, template_files, form_page, temp_dirs, hour, cleanup>>

\* ------------------------------------------------------------------------
\* home and cleanup_old_files (src/app.py, 86-111 and 235-239)
\* ------------------------------------------------------------------------

\* Config.TEMP_FILE_MAX_AGE = timedelta(hours=24)
TEMP_FILE_MAX_AGE == 24

\* a file is removed from the age of TEMP_FILE_MAX_AGE on
IsStale_Inclusive(call_now, file_age) == call_now - file_age >= TEMP_FILE_MAX_AGE

\* now - file_age > max_age, file_age being the file's modification time
IsStale(call_now, file_age) == call_now - file_age > TEMP_FILE_MAX_AGE

\* the hours that pass between two steps
TickInputs == {1, TEMP_FILE_MAX_AGE}

\* time passes
tick(d) ==
    /\ hour + d <= MaxHour
    /\ hour' = hour + d
    /\ UNCHANGED <<invVars, gen, temp_files, template_files, form_page,
                   temp_dirs, mtime, cleanup>>

\* GET /: cleanup_old_files takes now and lists the temp folder (the folder
\* exists: the main block and generate create it)
cleanup_begin ==
    /\ cleanup.pc = "idle"
    /\ cleanup' = [pc |-> "loop", now |-> hour,
                   listing |-> temp_files \cup temp_dirs, removed |-> {},
                   outcome |-> "none"]
    /\ UNCHANGED <<invVars, gen, temp_files, template_files, form_page,
                   temp_dirs, mtime, hour>>

\* one round of the loop, for the entry filename of the listing: a regular
\* file that is stale is removed, any other entry is passed over
cleanup_step(filename) ==
    /\ cleanup.pc = "loop"
    /\ filename \in cleanup.listing
    /\ IF filename \in temp_files
          /\ IsStale(cleanup.now, Get(mtime, filename, 0))
       THEN /\ temp_files' = temp_files \ {filename}
            /\ mtime' = {e \in mtime : e[1] # filename}
            /\ cleanup' = [cleanup EXCEPT !.listing = @ \ {filename},
                                          !.removed = @ \cup {filename}]
       ELSE /\ cleanup' = [cleanup EXCEPT !.listing = @ \ {filename}]
            /\ UNCHANGED <<temp_files, mtime>>
    /\ UNCHANGED <<invVars, gen, template_files, form_page, temp_dirs, hour>>

\* a call of the loop raises (getmtime or remove fails): the except clause
\* logs the error and cleanup_old_files returns with the rest not looked at
cleanup_fail ==
    /\ cleanup.pc = "loop"
    /\ cleanup.listing # {}
    /\ cleanup' = [cleanup EXCEPT !.pc = "idle", !.outcome = "error"]
    /\ UNCHANGED <<invVars, gen, temp_files, template_files, form_page,
                   temp_dirs, mtime, hour>>

\* the loop is through: cleanup_old_files returns and home renders its page
cleanup_done ==
    /\ cleanup.pc = "loop"
    /\ cleanup.listing = {}
    /\ cleanup' = [cleanup EXCEPT !.pc = "idle", !.outcome = "completed"]
    /\ UNCHANGED <<invVars, gen, temp_files, template_files, form_page,
                   temp_dirs, mtime, hour>>

\* ------------------------------------------------------------------------
\* form (src/app.py, 242-257)
\* ------------------------------------------------------------------------

NoPage == [doc_type |-> "None", resp |-> "none", flash |-> None]

\* the doc types a URL /form/<doc_type> may name
FormDocTypeInputs == {"WP", "INVALID_TYPE"}

\* GET /form/<doc_type>
form(doc_type) ==
    /\ form_page' = IF doc_type \notin DOC_TEMPLATES
                    THEN [doc_type |-> doc_type, resp |-> "redirect_home",
                          flash |-> <<"Invalid document type selected.">>]
                    ELSE [doc_type |-> doc_type, resp |-> "render_form",
                          flash |-> None]
    /\ UNCHANGED <<invVars, gen, temp_files, template_files, folderVars>>

\* ------------------------------------------------------------------------
\* Initial state of the invoice store
\* ------------------------------------------------------------------------

IdleLoc == [snap |-> {}, attempts |-> 0, invoice_id |-> None,
            issue_date |-> EmptyStr, year |-> EmptyStr, month_num |-> 0,
            ref_no |-> None]

Step(route, resp, db_read, db_write) ==
    [route |-> route, resp |-> resp, db_read |-> db_read, db_write |-> db_write]

\* The application as started: no session is authenticated, the store is
\* empty.  Whether firebase-key.json was found (db) and which password the
\* deployment configured are fixed at start-up; config.py of the repository
\* sets no INVOICE_GENERATOR_PASSWORD, which is the value None.
InvoiceInit ==
    /\ db \in BOOLEAN
    /\ INVOICE_GENERATOR_PASSWORD \in {None, Password_pw}
    /\ session = [s \in Sessions |-> {}]
    /\ counters = {}
    /\ invoices = {}
    /\ clock = 0
    /\ budget = StoreBudget
    /\ pc = [p \in Procs |-> "idle"]
    /\ loc = [p \in Procs |-> IdleLoc]
    /\ issued = <<>>
    /\ refs = {}
    /\ last = Step("none", "none", FALSE, FALSE)

\* no generate request yet, an empty temp folder
GenInit ==
    /\ gen = IdleGen
    /\ temp_files = {}
    /\ form_page = NoPage
    /\ temp_dirs = {}
    /\ mtime = {}
    /\ hour = 0
    /\ cleanup = IdleCleanup

Init ==
    /\ InvoiceInit
    /\ GenInit
    /\ template_files = DOC_TEMPLATES

\* ------------------------------------------------------------------------
\* The password gate (src/app.py, 149-156 and 401-421)
\* ------------------------------------------------------------------------

\* session.get('invoice_authenticated')
Authenticated(s) == Get(session[s], "invoice_authenticated", FALSE)

\* a gate that lets every session through
GateOpen_Always(s) == TRUE

\* invoice_password_required: the wrapped handler runs only for a session
\* in which invoice_authenticated is set
GateOpen(s) == Authenticated(s)

\* every password accepted while none is configured
PasswordMatches_Unset(password) ==
    \/ INVOICE_GENERATOR_PASSWORD = None
    \/ password = INVOICE_GENERATOR_PASSWORD

\* password == app.config.get('INVOICE_GENERATOR_PASSWORD')
PasswordMatches(password) == password = INVOICE_GENERATOR_PASSWORD

\* the record kept of what a gated route did for session s
Observe(route, s, resp, db_read, db_write) ==
    last' = IF Authenticated(s) THEN last
            ELSE Step(route, resp, db_read, db_write)

\* a request the gate turns away: redirect(url_for('invoice_password'))
Denied(route, s) ==
    /\ ~GateOpen(s)
    /\ Observe(route, s, "redirect_invoice_password", FALSE, FALSE)
    /\ UNCHANGED <<genVars, db, INVOICE_GENERATOR_PASSWORD, session, counters, invoices,
                   clock, budget, pc, loc, issued, refs>>

\* a gated request answered "Firebase not initialized": redirect to home
Unavailable(route, s) ==
    /\ GateOpen(s)
    /\ ~db
    /\ Observe(route, s, "redirect_home", FALSE, FALSE)
    /\ UNCHANGED <<genVars, db, INVOICE_GENERATOR_PASSWORD, session, counters, invoices,
                   clock, budget, pc, loc, issued, refs>>

\* POST /invoice/password
invoice_password_post(s, password) ==
    /\ session' = IF PasswordMatches(password)
                  THEN [session EXCEPT ![s] =
                            Put(@, "invoice_authenticated", TRUE)]
                  ELSE session
    /\ UNCHANGED <<genVars, db, INVOICE_GENERATOR_PASSWORD, counters, invoices, clock,
                   budget, pc, loc, issued, refs, last>>

\* GET /invoice/logout: session.pop('invoice_authenticated', None)
invoice_logout(s) ==
    /\ session' = [session EXCEPT ![s] =
                       {e \in @ : e[1] # "invoice_authenticated"}]
    /\ UNCHANGED <<genVars, db, INVOICE_GENERATOR_PASSWORD, counters, invoices, clock,
                   budget, pc, loc, issued, refs, last>>

\* ------------------------------------------------------------------------
\* Read-only invoice routes (src/app.py, 424-448 and 509-534)
\* ------------------------------------------------------------------------

\* doc_or_404: the document exists (otherwise abort(404), which error_handler
\* turns into a redirect to home)
Exists(invoice_id) == Has(invoices, invoice_id)

ReadOnly(route, s, resp, db_read) ==
    /\ GateOpen(s)
    /\ db
    /\ Observe(route, s, resp, db_read, FALSE)
    /\ UNCHANGED <<genVars, db, INVOICE_GENERATOR_PASSWORD, session, counters, invoices,
                   clock, budget, pc, loc, issued, refs>>

\* GET /invoices
invoice_list(s) ==
    \/ Denied("invoice_list", s)
    \/ Unavailable("invoice_list", s)
    \/ ReadOnly("invoice_list", s, "render_invoice_list", TRUE)

\* GET /invoices/new
new_invoice(s) ==
    \/ Denied("new_invoice", s)
    \/ Unavailable("new_invoice", s)
    \/ ReadOnly("new_invoice", s, "render_invoice_form", FALSE)

\* GET /invoices/<invoice_id>
invoice_detail(s, invoice_id) ==
    \/ Denied("invoice_detail", s)
    \/ Unavailable("invoice_detail", s)
    \/ ReadOnly("invoice_detail", s,
                IF Exists(invoice_id) THEN "render_invoice_print"
                ELSE "redirect_home", TRUE)

\* GET /invoices/<invoice_id>/edit
invoice_edit_form(s, invoice_id) ==
    \/ Denied("invoice_edit_form", s)
    \/ Unavailable("invoice_edit_form", s)
    \/ ReadOnly("invoice_edit_form", s,
                IF Exists(invoice_id) THEN "render_invoice_edit"
                ELSE "redirect_home", TRUE)

\* ------------------------------------------------------------------------
\* create_invoice (src/app.py, 451-506), one action per store access
\* ------------------------------------------------------------------------

\* create_invoice up to the first read of the counters document by
\* generate_invoice_id.txn
create_invoice_begin(p, s, issue_date) ==
    /\ GateOpen(s)
    /\ db
    /\ pc[p] = "idle"
    /\ budget.creates > 0
    /\ budget' = [budget EXCEPT !.creates = @ - 1]
    /\ pc' = [pc EXCEPT ![p] = "id_commit"]
    /\ loc' = [loc EXCEPT ![p] = [IdleLoc EXCEPT !.snap = counters,
                                                 !.issue_date = issue_date]]
    /\ Observe("create_invoice", s, "pending", TRUE, FALSE)
    /\ UNCHANGED <<genVars, db, INVOICE_GENERATOR_PASSWORD, session, counters,
                   invoices, clock, issued, refs>>

\* POST /invoices
create_invoice(p, s, issue_date) ==
    \/ Denied("create_invoice", s)
    \/ Unavailable("create_invoice", s)
    \/ create_invoice_begin(p, s, issue_date)

\* generate_invoice_id.txn commits and generate_invoice_id returns the id
id_commit(p) ==
    /\ pc[p] = "id_commit"
    /\ CanCommit(counters, loc[p].snap)
    /\ counters' = InvoiceTxnWrite(counters, loc[p].snap)
    /\ issued' = Append(issued, FormatInvoiceId(InvoiceNextOf(loc[p].snap)))
    /\ pc' = [pc EXCEPT ![p] = "ref_begin"]
    /\ loc' = [loc EXCEPT ![p].invoice_id =
                              FormatInvoiceId(InvoiceNextOf(loc[p].snap)),
                          ![p].snap = {}, ![p].attempts = 0]
    /\ UNCHANGED <<genVars, db, INVOICE_GENERATOR_PASSWORD, session, invoices, clock,
                   budget, refs, last>>

\* the commit is refused, the transaction is run again and reads again
id_retry(p) ==
    /\ pc[p] = "id_commit"
    /\ ~CanCommit(counters, loc[p].snap)
    /\ loc[p].attempts + 1 < MaxAttempts
    /\ loc' = [loc EXCEPT ![p].snap = counters, ![p].attempts = @ + 1]
    /\ UNCHANGED <<genVars, db, INVOICE_GENERATOR_PASSWORD, session, counters, invoices,
                   clock, budget, pc, issued, refs, last>>

\* the last attempt is refused: the transaction raises, error_handler
\* answers with a redirect to home and no invoice is stored
id_give_up(p) ==
    /\ pc[p] = "id_commit"
    /\ ~CanCommit(counters, loc[p].snap)
    /\ loc[p].attempts + 1 >= MaxAttempts
    /\ pc' = [pc EXCEPT ![p] = "idle"]
    /\ loc' = [loc EXCEPT ![p] = IdleLoc]
    /\ UNCHANGED <<genVars, db, INVOICE_GENERATOR_PASSWORD, session, counters, invoices,
                   clock, budget, issued, refs, last>>

\* generate_ref_no up to its first read: without a store, or with a date
\* that does not parse, it gives ref_no None without any store access
ref_begin(p) ==
    /\ pc[p] = "ref_begin"
    /\ IF db /\ ParseIssueDate(loc[p].issue_date).ok
       THEN /\ pc' = [pc EXCEPT ![p] = "ref_commit"]
            /\ loc' = [loc EXCEPT
                          ![p].year = ParseIssueDate(loc[p].issue_date).year,
                          ![p].month_num =
                              ParseIssueDate(loc[p].issue_date).month_num,
                          ![p].snap = counters, ![p].attempts = 0]
       ELSE /\ pc' = [pc EXCEPT ![p] = "store"]
            /\ loc' = [loc EXCEPT ![p].ref_no = None]
    /\ UNCHANGED <<genVars, db, INVOICE_GENERATOR_PASSWORD, session, counters, invoices,
                   clock, budget, issued, refs, last>>

\* the reference number generate_ref_no.txn returns for the snapshot data
RefNoFor(year, month_num, data) ==
    FormatRefNo(year, month_num, CurrentCount(data, MonthKey(year, month_num)))

\* generate_ref_no.txn commits and generate_ref_no returns the reference
ref_commit(p) ==
    /\ pc[p] = "ref_commit"
    /\ CanCommit(counters, loc[p].snap)
    /\ counters' = RefTxnWrite(counters, loc[p].snap,
                               MonthKey(loc[p].year, loc[p].month_num))
    /\ refs' = refs \cup {[issue_date |-> loc[p].issue_date,
                            ref_no |-> RefNoFor(loc[p].year, loc[p].month_num,
                                                loc[p].snap)]}
    /\ pc' = [pc EXCEPT ![p] = "store"]
    /\ loc' = [loc EXCEPT
                  ![p].ref_no = RefNoFor(loc[p].year, loc[p].month_num, loc[p].snap),
                  ![p].snap = {}, ![p].attempts = 0]
    /\ UNCHANGED <<genVars, db, INVOICE_GENERATOR_PASSWORD, session, invoices, clock,
                   budget, issued, last>>

\* the commit is refused, the transaction is run again and reads again
ref_retry(p) ==
    /\ pc[p] = "ref_commit"
    /\ ~CanCommit(counters, loc[p].snap)
    /\ loc[p].attempts + 1 < MaxAttempts
    /\ loc' = [loc EXCEPT ![p].snap = counters, ![p].attempts = @ + 1]
    /\ UNCHANGED <<genVars, db, INVOICE_GENERATOR_PASSWORD, session, counters, invoices,
                   clock, budget, pc, issued, refs, last>>

\* the last attempt is refused: the transaction raises inside the try of
\* generate_ref_no, which logs the error and returns None
ref_give_up(p) ==
    /\ pc[p] = "ref_commit"
    /\ ~CanCommit(counters, loc[p].snap)
    /\ loc[p].attempts + 1 >= MaxAttempts
    /\ pc' = [pc EXCEPT ![p] = "store"]
    /\ loc' = [loc EXCEPT ![p].ref_no = None, ![p].snap = {}, ![p].attempts = 0]
    /\ UNCHANGED <<genVars, db, INVOICE_GENERATOR_PASSWORD, session, counters, invoices,
                   clock, budget, issued, refs, last>>

\* the doc dict of create_invoice (the fields the claims are about)
NewInvoiceDoc(invoice_id, issue_date, ref_no, now) ==
    {<<"invoice_id", invoice_id>>, <<"issue_date", issue_date>>,
     <<"ref_no", ref_no>>, <<"created_at", now>>}

\* db.collection("invoices").document(invoice_id).set(doc)
store(p) ==
    /\ pc[p] = "store"
    /\ invoices' = Put(invoices, loc[p].invoice_id,
                       SetDoc(Get(invoices, loc[p].invoice_id, {}),
                              NewInvoiceDoc(loc[p].invoice_id, loc[p].issue_date,
                                            loc[p].ref_no, clock)))
    /\ clock' = clock + 1
    /\ pc' = [pc EXCEPT ![p] = "idle"]
    /\ loc' = [loc EXCEPT ![p] = IdleLoc]
    /\ UNCHANGED <<genVars, db, INVOICE_GENERATOR_PASSWORD, session, counters, budget,
                   issued, refs, last>>

\* ------------------------------------------------------------------------
\* invoice_edit and invoice_delete (src/app.py, 537-595)
\* ------------------------------------------------------------------------

\* invoice_edit up to doc_or_404: without the document the request ends
\* (abort(404), a redirect to home), with it the handler goes on to its write
invoice_edit_begin(p, s, invoice_id, issue_date) ==
    /\ GateOpen(s)
    /\ db
    /\ pc[p] = "idle"
    /\ budget.edits > 0
    /\ budget' = [budget EXCEPT !.edits = @ - 1]
    /\ IF Exists(invoice_id)
       THEN /\ pc' = [pc EXCEPT ![p] = "edit_write"]
            /\ loc' = [loc EXCEPT ![p] = [IdleLoc EXCEPT
                                             !.invoice_id = invoice_id,
                                             !.issue_date = issue_date]]
            /\ Observe("invoice_edit", s, "pending", TRUE, FALSE)
       ELSE /\ UNCHANGED <<pc, loc>>
            /\ Observe("invoice_edit", s, "redirect_home", TRUE, FALSE)
    /\ UNCHANGED <<genVars, db, INVOICE_GENERATOR_PASSWORD, session, counters,
                   invoices, clock, issued, refs>>

\* POST /invoices/<invoice_id>/edit
invoice_edit(p, s, invoice_id, issue_date) ==
    \/ Denied("invoice_edit", s)
    \/ Unavailable("invoice_edit", s)
    \/ invoice_edit_begin(p, s, invoice_id, issue_date)

\* the updates dict of invoice_edit (the fields the claims are about)
EditUpdates(issue_date, now) ==
    {<<"issue_date", issue_date>>, <<"updated_at", now>>}

\* db.collection("invoices").document(invoice_id).set(updates, merge=True)
edit_write(p) ==
    /\ pc[p] = "edit_write"
    /\ invoices' = Put(invoices, loc[p].invoice_id,
                       SetMerge(Get(invoices, loc[p].invoice_id, {}),
                                EditUpdates(loc[p].issue_date, clock)))
    /\ clock' = clock + 1
    /\ pc' = [pc EXCEPT ![p] = "idle"]
    /\ loc' = [loc EXCEPT ![p] = IdleLoc]
    /\ UNCHANGED <<genVars, db, INVOICE_GENERATOR_PASSWORD, session, counters, budget,
                   issued, refs, last>>

\* db.collection("invoices").document(invoice_id).delete()
invoice_delete_begin(s, invoice_id) ==
    /\ GateOpen(s)
    /\ db
    /\ budget.deletes > 0
    /\ budget' = [budget EXCEPT !.deletes = @ - 1]
    /\ invoices' = {e \in invoices : e[1] # invoice_id}
    /\ Observe("invoice_delete", s, "redirect_invoice_list", FALSE, TRUE)
    /\ UNCHANGED <<genVars, db, INVOICE_GENERATOR_PASSWORD, session, counters, clock,
                   pc, loc, issued, refs>>

\* POST /invoices/<invoice_id>/delete
invoice_delete(s, invoice_id) ==
    \/ Denied("invoice_delete", s)
    \/ Unavailable("invoice_delete", s)
    \/ invoice_delete_begin(s, invoice_id)

\* the steps of create_invoice after its first
CreateSteps ==
    \/ \E p \in Procs : id_commit(p)
    \/ \E p \in Procs : id_retry(p)
    \/ \E p \in Procs : id_give_up(p)
    \/ \E p \in Procs : ref_begin(p)
    \/ \E p \in Procs : ref_commit(p)
    \/ \E p \in Procs : ref_retry(p)
    \/ \E p \in Procs : ref_give_up(p)
    \/ \E p \in Procs : store(p)

Next ==
    \/ \E s \in Sessions, password \in PasswordInputs :
           invoice_password_post(s, password)
    \/ \E s \in Sessions : invoice_logout(s)
    \/ \E s \in Sessions : invoice_list(s)
    \/ \E s \in Sessions : new_invoice(s)
    \/ \E s \in Sessions, invoice_id \in IdInputs : invoice_detail(s, invoice_id)
    \/ \E s \in Sessions, invoice_id \in IdInputs : invoice_edit_form(s, invoice_id)
    \/ \E p \in Procs, s \in Sessions, issue_date \in GateDates :
           create_invoice(p, s, issue_date)
    \/ CreateSteps
    \/ \E p \in Procs, s \in Sessions, invoice_id \in IdInputs,
          issue_date \in EditDates : invoice_edit(p, s, invoice_id, issue_date)
    \/ \E p \in Procs : edit_write(p)
    \/ \E s \in Sessions, invoice_id \in IdInputs : invoice_delete(s, invoice_id)

\* All routes of the invoice interface
Spec == Init /\ [][Next]_vars

\* The state in which the store is available and session s1 has posted the
\* configured password, with the given numbers of requests still to start
InitAuthenticated(requests) ==
    /\ db = TRUE
    /\ INVOICE_GENERATOR_PASSWORD = Password_pw
    /\ session = [s \in Sessions |->
                     IF s = "s1" THEN {<<"invoice_authenticated", TRUE>>} ELSE {}]
    /\ counters = {}
    /\ invoices = {}
    /\ clock = 0
    /\ budget = requests
    /\ pc = [p \in Procs |-> "idle"]
    /\ loc = [p \in Procs |-> IdleLoc]
    /\ issued = <<>>
    /\ refs = {}
    /\ last = Step("none", "none", FALSE, FALSE)
    /\ GenInit
    /\ template_files = DOC_TEMPLATES

\* Concurrent create_invoice requests alone
InitCreate == InitAuthenticated([creates |-> MaxCreates, edits |-> 0, deletes |-> 0])

NextCreate ==
    \/ \E p \in Procs, issue_date \in ValidDates :
           create_invoice_begin(p, "s1", issue_date)
    \/ CreateSteps

SpecCreate == InitCreate /\ [][NextCreate]_vars

\* Concurrent create_invoice, invoice_edit and invoice_delete requests of the
\* authenticated session
InitStore == InitAuthenticated(StoreBudget)

NextStore ==
    \/ \E p \in Procs, issue_date \in CreateDates :
           create_invoice_begin(p, "s1", issue_date)
    \/ CreateSteps
    \/ \E p \in Procs, invoice_id \in IdInputs, issue_date \in EditDates :
           invoice_edit_begin(p, "s1", invoice_id, issue_date)
    \/ \E p \in Procs : edit_write(p)
    \/ \E invoice_id \in IdInputs : invoice_delete_begin("s1", invoice_id)

SpecStore == InitStore /\ [][NextStore]_vars

\* The document generator alone: the invoice store without credentials, the
\* template of a doc type present or missing
InitGenerate ==
    /\ InvoiceInit
    /\ db = FALSE
    /\ INVOICE_GENERATOR_PASSWORD = None
    /\ GenInit
    /\ template_files \in SUBSET DOC_TEMPLATES

NextGenerate ==
    \/ \E doc_type \in DocTypeInputs, date_raw \in DateFieldInputs,
          district_raw \in DistrictFieldInputs :
           generate_begin(doc_type, date_raw, district_raw)
    \/ \E names \in ListsUpTo(PetitionerNameInputs, MaxParties),
          addresses \in ListsUpTo(PetitionerAddressInputs, MaxParties) :
           generate_petitioners(names, addresses)
    \/ \E names \in ListsUpTo(RespondentNameInputs, MaxParties),
          addresses \in ListsUpTo(RespondentAddressInputs, MaxParties) :
           generate_respondents(names, addresses)
    \/ \E render_ok \in BOOLEAN : generate_render(render_ok)

SpecGenerate == InitGenerate /\ [][NextGenerate]_vars

\* The two entry points of the document generator, form and generate, the
\* latter with one list of petitioners and one of respondents
NextEntry ==
    \/ \E doc_type \in FormDocTypeInputs : form(doc_type)
    \/ \E doc_type \in DocTypeInputs, date_raw \in DateFieldInputs,
          district_raw \in DistrictFieldInputs :
           generate_begin(doc_type, date_raw, district_raw)
    \/ generate_petitioners(<<<<"<b>", "P", "</b>">>>>, <<<<>>>>)
    \/ generate_respondents(<<<<"R">>>>, <<<<"3", "\n", "\n", "4">>>>)
    \/ \E render_ok \in BOOLEAN : generate_render(render_ok)

SpecEntry == InitGenerate /\ [][NextEntry]_vars

\* The temp folder over time: home requests with their cleanup, generate
\* requests that write documents, and the clock; the folder starts empty or
\* with one directory in it
InitCleanup ==
    /\ InvoiceInit
    /\ db = FALSE
    /\ INVOICE_GENERATOR_PASSWORD = None
    /\ gen = IdleGen
    /\ temp_files = {}
    /\ template_files = DOC_TEMPLATES
    /\ form_page = NoPage
    /\ temp_dirs \in {{}, {1}}
    /\ mtime = {<<d, 0>> : d \in temp_dirs}
    /\ hour = 0
    /\ cleanup = IdleCleanup

NextCleanup ==
    \/ \E d \in TickInputs : tick(d)
    \/ cleanup_begin
    \/ \E filename \in temp_files \cup temp_dirs : cleanup_step(filename)
    \/ cleanup_fail
    \/ cleanup_done
    \/ generate_begin("WP", Rep("9", DateMaxLength), Rep("d", DistrictMaxLength))
    \/ generate_petitioners(<<<<"<b>", "P", "</b>">>>>, <<<<>>>>)
    \/ generate_respondents(<<<<"R">>>>, <<<<"3", "\n", "\n", "4">>>>)
    \/ generate_render(TRUE)

SpecCleanup == InitCleanup /\ [][NextCleanup]_vars

\* ------------------------------------------------------------------------
\* Vocabulary of the claims
\* ------------------------------------------------------------------------

\* the number an invoice id carries after "inv"
IdNumber(invoice_id) == IntOf(SubSeq(invoice_id, 4, Len(invoice_id)))

\* the sequence number a reference number ends with
RefSeqNo(ref_no) == IntOf(Split(ref_no, "/")[4])

\* the calendar <<year, month>> an issue date lies in, by the calendar and
\* not by generate_ref_no
CalendarYM(issue_date) ==
    CASE issue_date = Date_01_03_2024 -> <<2024, 3>>
      [] issue_date = Date_2024_03_15 -> <<2024, 3>>
      [] issue_date = Date_2024_04_01 -> <<2024, 4>>
      [] OTHER -> <<0, 0>>

InCalendar(issue_date) == CalendarYM(issue_date) # <<0, 0>>

\* the documents of the collection that create_invoice wrote
CreatedDocs == {e[2] : e \in {x \in invoices : Has(x[2], "created_at")}}

\* the invoice ids held by requests that have not stored their invoice yet
HeldIds == {loc[p].invoice_id : p \in {q \in Procs : pc[q] \in {"ref_begin", "ref_commit", "store"}}}

\* the positions of the submitted (name, address) pairs, names and addresses
\* paired in submission order, whose cleaned name is not empty
KeptPairs(names, addresses) ==
    {i \in 1..Min(Len(names), Len(addresses)) : extract_plain(names[i]) # <<>>}

\* the k-th kept position, in submission order
KeptAt(names, addresses, k) ==
    CHOOSE i \in KeptPairs(names, addresses) :
        Cardinality({j \in KeptPairs(names, addresses) : j < i}) = k - 1

\* the number of characters of sep.join(parts) before its k-th part
RECURSIVE Offset(_, _, _)
Offset(parts, sep, k) ==
    IF k = 1 THEN 0
    ELSE Offset(parts, sep, k - 1) + Len(parts[k - 1]) + Len(sep)

\* str is the parts, in order, with sep between two neighbours and nothing
\* else
IsJoinOf(str, parts, sep) ==
    IF Len(parts) = 0 THEN str = <<>>
    ELSE /\ Len(str) = Offset(parts, sep, Len(parts)) + Len(parts[Len(parts)])
         /\ \A k \in 1..Len(parts) :
                SubSeq(str, Offset(parts, sep, k) + 1,
                       Offset(parts, sep, k) + Len(parts[k])) = parts[k]
         /\ \A k \in 1..(Len(parts) - 1) :
                SubSeq(str, Offset(parts, sep, k) + Len(parts[k]) + 1,
                       Offset(parts, sep, k + 1)) = sep

\* the five views of one side agree with the submitted lists and with each
\* other
ViewsConsistent(names, addresses, party_list, count, party_names, text, first) ==
    /\ Len(party_list) = Cardinality(KeptPairs(names, addresses))
    /\ \A k \in 1..Len(party_list) :
           /\ party_list[k].name = extract_plain(names[KeptAt(names, addresses, k)])
           /\ party_list[k].address =
                  AddressOf(extract_plain(addresses[KeptAt(names, addresses, k)]))
    /\ count = Len(party_list)
    /\ IsJoinOf(party_names, [k \in 1..Len(party_list) |-> party_list[k].name],
                <<",", " ">>)
    /\ IsJoinOf(text,
                [k \in 1..Len(party_list) |->
                     party_list[k].name \o <<"\n">> \o party_list[k].address],
                <<"\n", "\n">>)
    /\ first = IF Len(party_list) = 0 THEN [name |-> <<>>, address |-> <<>>]
               ELSE party_list[1]

\* the stripped date or district is one validate_input refuses
MissingOrTooLong(g) ==
    \/ Len(g.date) = 0
    \/ Len(g.date) > 20
    \/ Len(g.district) = 0
    \/ Len(g.district) > 100

\* a POST /generate has arrived: the request was idle and reads a form
Arrives == gen.pc = "idle" /\ gen' # gen

\* the key "YYYY_MM" of the calendar month of a date, by the calendar
CalendarKey(issue_date) ==
    CASE CalendarYM(issue_date) = <<2024, 3>> -> <<"2", "0", "2", "4", "_", "0", "3">>
      [] CalendarYM(issue_date) = <<2024, 4>> -> <<"2", "0", "2", "4", "_", "0", "4">>
      [] OTHER -> <<>>

\* the issue dates for which generate_ref_no has no reference number: the
\* empty date, a date of two parts and a date of month 13
NoRefDates == {<<>>,
               <<"2", "0", "2", "4", "-", "0", "3">>,
               <<"2", "0", "2", "4", "-", "1", "3", "-", "0", "1">>}

\* the entries of the temp folder
Entries(files, dirs) == files \cup dirs

\* the monthly_ref_counters map of a counters document
MonthlyCounters(doc) == Get(doc, "monthly_ref_counters", {})

\* the entry of key k is the same, present or absent, in both maps
SameEntry(m1, m2, k) ==
    /\ Has(m1, k) <=> Has(m2, k)
    /\ Get(m1, k, 0) = Get(m2, k, 0)

\* ------------------------------------------------------------------------
\* Claims
\* ------------------------------------------------------------------------

\* C1: whatever the interleaving of concurrent create_invoice requests, no
\* two of them are given the same invoice_id by generate_invoice_id (the ids
\* returned so far are pairwise different, and so are the ids two requests in
\* flight hold), and no create_invoice write overwrites a record stored by
\* another create_invoice (a request about to store finds no document under
\* its id).
C1_UniqueInvoiceId ==
    /\ \A i, j \in 1..Len(issued) : i # j => issued[i] # issued[j]
    /\ \A p, q \in Procs :
           (p # q /\ pc[p] \in {"ref_begin", "ref_commit", "store"}
                  /\ pc[q] \in {"ref_begin", "ref_commit", "store"})
               => loc[p].invoice_id # loc[q].invoice_id
    /\ \A p \in Procs : pc[p] = "store" => ~Has(invoices, loc[p].invoice_id)

\* two concurrent requests both hold an id given by generate_invoice_id and
\* are about to store, an earlier invoice being stored already
C1_Witness ==
    /\ \E p, q \in Procs : p # q /\ pc[p] = "store" /\ pc[q] = "store"
    /\ invoices # {}

IssuedIncreasing(ids) ==
    \A i, j \in 1..Len(ids) : i < j => IdNumber(ids[i]) < IdNumber(ids[j])

\* C3: in any sequence of create, edit and delete requests the invoice_next
\* counter never decreases, every invoice id issued carries a number greater
\* than that of every id issued by a transaction that committed earlier, and
\* an id is never issued again, also not after its invoice was deleted (no
\* step returns an id that was returned before).
C3_MonotoneInvoiceId ==
    [][/\ InvoiceNextOf(counters') >= InvoiceNextOf(counters)
       /\ IssuedIncreasing(issued')
       /\ \A i \in 1..Len(issued') :
              i > Len(issued) =>
                  \A j \in 1..Len(issued) : issued[j] # issued'[i]]_vars

\* the first invoice was stored and deleted, and a second id has been issued
\* and its invoice stored
C3_Witness ==
    /\ Len(issued) >= 2
    /\ ~Has(invoices, issued[1])
    /\ issued[1] \notin HeldIds
    /\ budget.deletes < StoreBudget.deletes
    /\ Has(invoices, issued[2])

\* C4: per calendar month the sequence numbers of the reference numbers run
\* 1, 2, 3, ...: each reference number generate_ref_no returns carries one
\* plus the number of references returned before for issue dates of the same
\* calendar year and month, whatever was returned for other months and
\* whichever of dd/mm/yyyy and yyyy-mm-dd the dates were written in.
C4_SequentialPerMonth ==
    [][\A p \in Procs :
           (pc[p] = "ref_commit" /\ pc'[p] = "store" /\ loc'[p].ref_no # None)
               => /\ [issue_date |-> loc[p].issue_date,
                      ref_no |-> loc'[p].ref_no] \in refs' \ refs
                  /\ RefSeqNo(loc'[p].ref_no) =
                         1 + Cardinality({r \in refs :
                                 CalendarYM(r.issue_date)
                                     = CalendarYM(loc[p].issue_date)})]_vars

\* March 2024 got 1 for a dd/mm/yyyy date and then 2 for a yyyy-mm-dd date,
\* with April 2024 getting its own 1
C4_Witness ==
    \E a, b, c \in refs :
        /\ a.issue_date = Date_01_03_2024 /\ RefSeqNo(a.ref_no) = 1
        /\ b.issue_date = Date_2024_03_15 /\ RefSeqNo(b.ref_no) = 2
        /\ c.issue_date = Date_2024_04_01 /\ RefSeqNo(c.ref_no) = 1

\* C5: no lost and no doubled update of the counter: the counters document
\* changes only by the commit of a transaction whose snapshot is still the
\* current document (a transaction overtaken by another commit does not
\* write), and invoice_next always equals 1, its value while absent, plus the
\* number of invoice ids generate_invoice_id has returned.
C5_NoLostUpdate ==
    /\ InvoiceNextOf(counters) = 1 + Len(issued)
    /\ [][/\ counters' # counters =>
                 \E p \in Procs : /\ pc[p] \in {"id_commit", "ref_commit"}
                                  /\ pc'[p] # pc[p]
                                  /\ loc[p].snap = counters
          /\ InvoiceNextOf(counters') = 1 + Len(issued')]_vars

\* a transaction of generate_invoice_id was overtaken, ran again and is about
\* to commit on a fresh snapshot, three ids having been returned already
C5_Witness ==
    /\ Len(issued) >= 3
    /\ \E p \in Procs : /\ pc[p] = "id_commit"
                        /\ loc[p].attempts >= 1
                        /\ loc[p].snap = counters

GatedRoutes == {"invoice_list", "new_invoice", "create_invoice",
                "invoice_detail", "invoice_edit_form", "invoice_edit",
                "invoice_delete"}

\* C6: a request to one of the seven gated routes made with a session in
\* which invoice_authenticated is not set is answered with the redirect to
\* the password page, reads and writes nothing in the store, and leaves the
\* invoices collection, the counters record and every request in flight as
\* they were.
C6_PasswordGate ==
    /\ [](last.route \in GatedRoutes =>
              /\ last.resp = "redirect_invoice_password"
              /\ ~last.db_read
              /\ ~last.db_write)
    /\ [][last' # last =>
              /\ last'.route \in GatedRoutes
              /\ invoices' = invoices
              /\ counters' = counters
              /\ pc' = pc]_vars

\* an unauthenticated invoice_delete was turned away while the invoice it
\* names is stored
C6_Witness ==
    /\ last.route = "invoice_delete"
    /\ last.resp = "redirect_invoice_password"
    /\ Has(invoices, FormatInvoiceId(1))

\* C7: invoice_authenticated becomes set only by a POST to invoice_password
\* with the configured password, a POST with any other password leaves the
\* session as it was, and invoice_logout leaves the flag unset (so that it
\* stays unset until the next POST with the configured password).
C7_SessionFlag ==
    [][\A s \in Sessions :
           /\ (~Authenticated(s) /\ Get(session'[s], "invoice_authenticated", FALSE))
                  => \E password \in PasswordInputs :
                         /\ password = INVOICE_GENERATOR_PASSWORD
                         /\ invoice_password_post(s, password)
           /\ \A password \in PasswordInputs :
                  (password # INVOICE_GENERATOR_PASSWORD
                       /\ invoice_password_post(s, password))
                      => session' = session
           /\ invoice_logout(s)
                  => ~Get(session'[s], "invoice_authenticated", FALSE)]_vars

\* session s1 has posted the configured password and session s2 has not
C7_Witness ==
    /\ INVOICE_GENERATOR_PASSWORD = Password_pw
    /\ Authenticated("s1")
    /\ ~Authenticated("s2")

\* C8: the views of the party data in the context generate builds agree, for
\* every submitted list of names and addresses: petitioner_list holds, in
\* submission order, exactly the (name, address) pairs whose cleaned name is
\* not empty (names and addresses paired by position, name and address
\* cleaned), petitioner_count is its length, petitioner_names the join of its
\* names with ", ", petitioner the join of its name-newline-address entries
\* with a blank line, first_petitioner its first element or the placeholder
\* of two empty strings, and the same for the respondent views.
C8_PartyViewsConsistent ==
    gen.has_context =>
        /\ ViewsConsistent(gen.petitioner_names, gen.petitioner_addresses,
                           gen.context.petitioner_list,
                           gen.context.petitioner_count,
                           gen.context.petitioner_names,
                           gen.context.petitioner,
                           gen.context.first_petitioner)
        /\ ViewsConsistent(gen.respondent_names, gen.respondent_addresses,
                           gen.context.respondent_list,
                           gen.context.respondent_count,
                           gen.context.respondent_names,
                           gen.context.respondents,
                           gen.context.first_respondent)

\* a context was built from two petitioner pairs of which the first, its
\* name blank, was dropped and from two respondent pairs that were both kept
C8_Witness ==
    /\ gen.has_context
    /\ Len(gen.petitioner_names) = 2
    /\ Len(gen.petitioner_addresses) = 2
    /\ gen.petitioner_names[1] = <<" ">>
    /\ Len(gen.petitioner_addresses[2]) > 0
    /\ gen.context.petitioner_count = 1
    /\ gen.context.respondent_count = 2

\* C9 as stated: generate renders a document only when at least one
\* petitioner and one respondent are present: whenever generate reaches the
\* template render, petitioner_count >= 1 and respondent_count >= 1 in the
\* context it passes.
C9_RenderNeedsParties ==
    gen.pc = "render" =>
        /\ gen.context.petitioner_count >= 1
        /\ gen.context.respondent_count >= 1

C11_UnknownDocTypeRejected ==
    /\ [](form_page.doc_type # "WP" /\ form_page.resp # "none"
              => form_page.resp = "redirect_home")
    /\ [][(Arrives /\ gen'.doc_type # "WP")
              => /\ gen'.pc = "idle"
                 /\ gen'.outcome = "redirect_home"
                 /\ gen'.flash = <<"Invalid document type.">>
                 /\ ~gen'.rendered
                 /\ temp_files' = temp_files]_vars

\* form was asked for INVALID_TYPE and generate was posted INVALID_TYPE with
\* an empty date, and both redirected to home
C11_Witness ==
    /\ form_page.doc_type = "INVALID_TYPE"
    /\ form_page.resp = "redirect_home"
    /\ gen.doc_type = "INVALID_TYPE"
    /\ Len(gen.date_raw) = 0
    /\ gen.outcome = "redirect_home"

\* C12 as stated: in every reachable state every record of the invoices
\* collection was written by create_invoice (it carries the created_at that
\* only create_invoice writes) and carries an invoice_id equal to its
\* document key, also when an invoice_edit is interleaved with an
\* invoice_delete of the same invoice.
C12_RecordsWrittenByCreate ==
    \A e \in invoices :
        /\ Has(e[2], "created_at")
        /\ Get(e[2], "invoice_id", None) = e[1]

\* C13: invoice_edit leaves the identity fields and the counters alone: when
\* the write of an invoice_edit lands on an invoice that exists, the invoice
\* is still there with the invoice_id, ref_no and created_at it had before
\* (also when the edit moves issue_date to another month), and the counters
\* document, with invoice_next and every monthly_ref_counters entry, is
\* unchanged.
C13_EditKeepsIdentity ==
    [][\A p \in Procs :
           (pc[p] = "edit_write" /\ pc'[p] = "idle" /\ Has(invoices, loc[p].invoice_id))
               => LET before == Get(invoices, loc[p].invoice_id, {})
                      after == Get(invoices', loc[p].invoice_id, {})
                  IN  /\ Has(invoices', loc[p].invoice_id)
                      /\ \A f \in {"invoice_id", "ref_no", "created_at"} :
                             /\ Has(before, f) <=> Has(after, f)
                             /\ Get(before, f, None) = Get(after, f, None)
                      /\ Get(after, "invoice_id", None) = loc[p].invoice_id
                      /\ counters' = counters]_vars

\* an invoice created for March 2024 with a March reference number was
\* edited to an issue date in April
C13_Witness ==
    \E e \in invoices :
        /\ Has(e[2], "updated_at")
        /\ Get(e[2], "issue_date", EmptyStr) = Date_2024_04_01
        /\ Get(e[2], "invoice_id", None) = e[1]
        /\ Get(e[2], "ref_no", None) = FormatRefNo(<<"2", "0", "2", "4">>, 3, 1)

\* C14: the two sequences of the counters document do not disturb each
\* other, whatever the interleaving: the commit of a generate_invoice_id
\* transaction leaves every monthly_ref_counters entry as it was, and the
\* commit of a generate_ref_no transaction for month M leaves invoice_next
\* and the entry of every month other than M as they were.
C14_CountersIndependent ==
    [][\A p \in Procs :
           /\ (pc[p] = "id_commit" /\ pc'[p] = "ref_begin")
                  => \A k \in Keys(MonthlyCounters(counters))
                                \cup Keys(MonthlyCounters(counters')) :
                         SameEntry(MonthlyCounters(counters),
                                   MonthlyCounters(counters'), k)
           /\ (pc[p] = "ref_commit" /\ pc'[p] = "store" /\ loc'[p].ref_no # None)
                  => /\ SameEntry(counters, counters', "invoice_next")
                     /\ \A k \in Keys(MonthlyCounters(counters))
                                   \cup Keys(MonthlyCounters(counters')) :
                            k # CalendarKey(loc[p].issue_date)
                                => SameEntry(MonthlyCounters(counters),
                                             MonthlyCounters(counters'), k)]_vars

\* the counters document holds invoice_next 4 next to a count of 2 for March
\* and of 1 for April 2024, after transactions of both kinds
C14_Witness ==
    /\ Get(counters, "invoice_next", 1) = 4
    /\ Get(MonthlyCounters(counters), <<"2", "0", "2", "4", "_", "0", "3">>, 0) = 2
    /\ Get(MonthlyCounters(counters), <<"2", "0", "2", "4", "_", "0", "4">>, 0) = 1

\* C15: generate_ref_no fails without side effects: called without a store,
\* or with an issue date that is empty, does not split into three parts or
\* has a month outside 1..12, it returns None and leaves the counters
\* document, with every monthly counter, unchanged; create_invoice then
\* stores the invoice, with ref_no None, under the invoice_id that
\* generate_invoice_id allocated to it before.
C15_RefNoFailsCleanly ==
    [][\A p \in Procs :
           /\ (pc[p] = "ref_begin" /\ pc'[p] # "ref_begin"
                   /\ (~db \/ loc[p].issue_date \in NoRefDates))
                  => /\ pc'[p] = "store"
                     /\ loc'[p].ref_no = None
                     /\ loc'[p].invoice_id = loc[p].invoice_id
                     /\ counters' = counters
           /\ (pc[p] = "store" /\ pc'[p] = "idle"
                   /\ loc[p].issue_date \in NoRefDates)
                  => /\ Has(invoices', loc[p].invoice_id)
                     /\ Get(Get(invoices', loc[p].invoice_id, {}), "ref_no", EmptyStr)
                            = None
                     /\ Get(Get(invoices', loc[p].invoice_id, {}), "invoice_id", None)
                            = loc[p].invoice_id
                     /\ \E i \in 1..Len(issued) : issued[i] = loc[p].invoice_id
                     /\ InvoiceNextOf(counters') > IdNumber(loc[p].invoice_id)
                     /\ counters' = counters]_vars

\* two invoices are stored without a reference number, one with a date of
\* two parts and one with month 13, and no monthly counter exists
C15_Witness ==
    /\ \E e1, e2 \in invoices :
           /\ Get(e1[2], "issue_date", EmptyStr) = <<"2", "0", "2", "4", "-", "0", "3">>
           /\ Get(e2[2], "issue_date", EmptyStr) = Date_2024_13_01
           /\ Get(e1[2], "ref_no", EmptyStr) = None
           /\ Get(e2[2], "ref_no", EmptyStr) = None
    /\ MonthlyCounters(counters) = {}
    /\ InvoiceNextOf(counters) = 3

\* C16: cleanup_old_files removes exactly the stale files: whatever is
\* removed from the temp folder is a regular file that is more than 24 hours
\* old at that moment (so no file of at most 24 hours, no document generate
\* wrote less than 24 hours before, and no directory is removed), and when a
\* call completes no regular file that was more than 24 hours old when the
\* call took the time remains in the folder.
C16_CleanupRemovesExactlyStale ==
    [][/\ \A f \in Entries(temp_files, temp_dirs) \ Entries(temp_files', temp_dirs') :
              /\ f \in temp_files
              /\ hour - Get(mtime, f, 0) > 24
       /\ temp_dirs' = temp_dirs
       /\ (cleanup.pc = "loop" /\ cleanup'.pc = "idle"
               /\ cleanup'.outcome = "completed")
              => \A f \in temp_files' :
                     cleanup.now - Get(mtime', f, 0) <= 24]_vars

\* a call that completed removed a stale document and passed over a
\* directory as old, and a document written since is in the folder
C16_Witness ==
    /\ cleanup.pc = "idle"
    /\ cleanup.outcome = "completed"
    /\ cleanup.removed # {}
    /\ temp_dirs # {}
    /\ \E f \in temp_files : Get(mtime, f, 0) >= cleanup.now

====
